---- MODULE Spec2Model ----
(***************************************************************************)
(* BLE notification / command bridge of Thesis_BLE.                        *)
(*                                                                         *)
(*   src/examples/enable_response.py      parent ("writer") process        *)
(*   src/examples/devel_notifications.py  child ("notification") process   *)
(*                                                                         *)
(* The parent creates one multiprocessing.Queue, starts the notification   *)
(* process on it and then runs its own loop on the same queue.  Text is a  *)
(* sequence of code points, a notification payload a sequence of bytes.    *)
(***************************************************************************)
EXTENDS Integers, Sequences, FiniteSets, TLC

(***************************************************************************)
(* Bounds of the model.                                                    *)
(***************************************************************************)
\* Notifications the peripheral delivers in one run.
MaxNotifs == 2

(***************************************************************************)
(* Characters.  Code maps the characters the payloads are written with to  *)
(* their code points; S turns a tuple of characters into text.             *)
(***************************************************************************)
Code ==
  ("0" :> 48) @@ ("1" :> 49) @@ ("2" :> 50) @@ ("3" :> 51) @@ ("4" :> 52) @@
  ("5" :> 53) @@ ("6" :> 54) @@ ("7" :> 55) @@ ("8" :> 56) @@ ("9" :> 57) @@
  ("." :> 46) @@ ("," :> 44) @@ ("-" :> 45) @@ ("+" :> 43) @@ (" " :> 32) @@
  ("_" :> 95) @@ ("B" :> 66) @@ ("L" :> 76) @@ ("I" :> 73) @@ ("N" :> 78) @@
  ("K" :> 75) @@ ("S" :> 83) @@ ("e" :> 101) @@ ("n" :> 110) @@ ("a" :> 97) @@
  ("i" :> 105) @@ ("f" :> 102) @@ ("t" :> 116) @@ ("y" :> 121) @@ ("x" :> 120)

S(chars) == [i \in 1..Len(chars) |-> Code[chars[i]]]

Comma      == Code[","]
Digits     == 48..57
Whitespace == {9, 10, 11, 12, 13, 32}

SubSeqFrom(s, i) == SubSeq(s, i, Len(s))

(***************************************************************************)
(* data.decode("utf-8") and str.encode("utf-8"), for code points below     *)
(* U+0800 (one- and two-byte forms).  Decoding fails on a stray            *)
(* continuation byte, an overlong lead (0xC0, 0xC1), a truncated sequence  *)
(* and on bytes that start no sequence (0xF8..0xFF).  Three- and four-byte *)
(* leads are not among the modelled payloads.                              *)
(***************************************************************************)
RECURSIVE DecodeFrom(_, _)
DecodeFrom(data, i) ==
  IF i > Len(data) THEN [ok |-> TRUE, str |-> <<>>]
  ELSE LET b == data[i] IN
    IF b < 128 THEN
      LET r == DecodeFrom(data, i + 1) IN
        IF r.ok THEN [ok |-> TRUE, str |-> <<b>> \o r.str] ELSE r
    ELSE IF b >= 194 /\ b <= 223 /\ i < Len(data)
            /\ data[i + 1] >= 128 /\ data[i + 1] <= 191 THEN
      LET r == DecodeFrom(data, i + 2) IN
        IF r.ok
          THEN [ok |-> TRUE,
                str |-> <<(b - 192) * 64 + (data[i + 1] - 128)>> \o r.str]
          ELSE r
    ELSE [ok |-> FALSE, str |-> <<>>]

Decode(data) == DecodeFrom(data, 1)

RECURSIVE Encode(_)
Encode(str) ==
  IF str = <<>> THEN <<>>
  ELSE LET c == Head(str) IN
    (IF c < 128 THEN <<c>> ELSE <<192 + (c \div 64), 128 + (c % 64)>>)
      \o Encode(Tail(str))

(***************************************************************************)
(* "BLINK" in message: substring test.                                     *)
(***************************************************************************)
BLINK == S(<<"B", "L", "I", "N", "K">>)

Contains(str, pat) ==
  \E i \in 1..(Len(str) - Len(pat) + 1) :
    SubSeq(str, i, i + Len(pat) - 1) = pat

(***************************************************************************)
(* message.split(","): the fields between the commas; always at least one  *)
(* field, empty fields kept.                                               *)
(***************************************************************************)
RECURSIVE Split(_)
Split(str) ==
  IF \A i \in 1..Len(str) : str[i] # Comma THEN <<str>>
  ELSE LET k == CHOOSE i \in 1..Len(str) :
                  str[i] = Comma /\ \A j \in 1..(i - 1) : str[j] # Comma
       IN <<SubSeq(str, 1, k - 1)>> \o Split(SubSeqFrom(str, k + 1))

(***************************************************************************)
(* float(field).  Leading and trailing whitespace is stripped; then an     *)
(* optional sign; then "inf", "infinity" or "nan" in any case, or a        *)
(* decimal number: digits with an optional point and an optional exponent, *)
(* single underscores allowed between digits.  A value is                  *)
(*   [kind |-> "fin", neg, num, exp]  for  (-1)^neg * num * 10^exp,        *)
(*   [kind |-> "inf", neg, ...]  or  [kind |-> "nan", ...].                *)
(* The fields of the modelled payloads have far fewer than 17 significant  *)
(* digits, so the comparison of the binary double with 0.50 agrees with    *)
(* the comparison of the decimal value.                                    *)
(***************************************************************************)
RECURSIVE LStrip(_)
LStrip(str) ==
  IF str # <<>> /\ Head(str) \in Whitespace THEN LStrip(Tail(str)) ELSE str

RECURSIVE RStrip(_)
RStrip(str) ==
  IF str # <<>> /\ str[Len(str)] \in Whitespace
    THEN RStrip(SubSeq(str, 1, Len(str) - 1))
    ELSE str

Strip(str) == RStrip(LStrip(str))

Lower(str) ==
  [i \in 1..Len(str) |-> IF str[i] \in 65..90 THEN str[i] + 32 ELSE str[i]]

\* digit (["_"] digit)*
IsDigitPart(str) ==
  /\ str # <<>>
  /\ \A i \in 1..Len(str) : str[i] \in Digits \cup {Code["_"]}
  /\ str[1] \in Digits
  /\ str[Len(str)] \in Digits
  /\ \A i \in 1..(Len(str) - 1) : ~(str[i] = Code["_"] /\ str[i + 1] = Code["_"])

RECURSIVE DigitsValue(_)
DigitsValue(str) ==
  IF str = <<>> THEN 0
  ELSE LET c == str[Len(str)]
           r == DigitsValue(SubSeq(str, 1, Len(str) - 1))
       IN IF c \in Digits THEN 10 * r + (c - 48) ELSE r

NumDigits(str) == Cardinality({i \in 1..Len(str) : str[i] \in Digits})

\* Index of the first element of str that is in set, 0 when there is none.
FirstIn(str, set) ==
  IF \E i \in 1..Len(str) : str[i] \in set
    THEN CHOOSE i \in 1..Len(str) :
           str[i] \in set /\ \A j \in 1..(i - 1) : str[j] \notin set
    ELSE 0

NotAFloat == [ok |-> FALSE, kind |-> "err", neg |-> FALSE, num |-> 0, exp |-> 0]

FloatValue(kind, neg, num, exp) ==
  [ok |-> TRUE, kind |-> kind, neg |-> neg, num |-> num, exp |-> exp]

INF      == S(<<"i", "n", "f">>)
INFINITY == S(<<"i", "n", "f", "i", "n", "i", "t", "y">>)
NAN      == S(<<"n", "a", "n">>)

\* The unsigned part: special names, or mantissa [exponent].
ParseUnsigned(body, neg) ==
  IF Lower(body) \in {INF, INFINITY, NAN}
    THEN FloatValue(IF Lower(body) = NAN THEN "nan" ELSE "inf", neg, 0, 0)
  ELSE
    LET e     == FirstIn(body, {Code["e"], 69})
        mant  == IF e = 0 THEN body ELSE SubSeq(body, 1, e - 1)
        expo  == IF e = 0 THEN <<>> ELSE SubSeqFrom(body, e + 1)
        eneg  == expo # <<>> /\ Head(expo) = Code["-"]
        edig  == IF expo # <<>> /\ Head(expo) \in {Code["+"], Code["-"]}
                   THEN Tail(expo) ELSE expo
        p     == FirstIn(mant, {Code["."]})
        ipart == IF p = 0 THEN mant ELSE SubSeq(mant, 1, p - 1)
        fpart == IF p = 0 THEN <<>> ELSE SubSeqFrom(mant, p + 1)
        eval  == IF e = 0 THEN 0
                 ELSE IF eneg THEN 0 - DigitsValue(edig) ELSE DigitsValue(edig)
    IN IF /\ (ipart # <<>> \/ fpart # <<>>)
          /\ (ipart = <<>> \/ IsDigitPart(ipart))
          /\ (fpart = <<>> \/ IsDigitPart(fpart))
          /\ (e = 0 \/ IsDigitPart(edig))
         THEN FloatValue("fin", neg, DigitsValue(ipart \o fpart),
                         eval - NumDigits(fpart))
         ELSE NotAFloat

ParseFloat(field) ==
  LET t    == Strip(field)
      sgn  == t # <<>> /\ Head(t) \in {Code["+"], Code["-"]}
      neg  == t # <<>> /\ Head(t) = Code["-"]
      body == IF sgn THEN Tail(t) ELSE t
  IN IF body = <<>> THEN NotAFloat ELSE ParseUnsigned(body, neg)

RECURSIVE Pow10(_)
Pow10(n) == IF n <= 0 THEN 1 ELSE 10 * Pow10(n - 1)

\* a > b on floats: false when either is nan.
FloatGT(a, b) ==
  IF a.kind = "nan" \/ b.kind = "nan" THEN FALSE
  ELSE IF a.kind = "inf" THEN ~a.neg /\ ~(b.kind = "inf" /\ ~b.neg)
  ELSE IF b.kind = "inf" THEN b.neg
  ELSE LET e  == IF a.exp < b.exp THEN a.exp ELSE b.exp
           av == (IF a.neg THEN -1 ELSE 1) * a.num * Pow10(a.exp - e)
           bv == (IF b.neg THEN -1 ELSE 1) * b.num * Pow10(b.exp - e)
       IN av > bv

(***************************************************************************)
(* gx, gy, gz, ax, ay, az = map(float, message.split(",")): six values, or *)
(* ValueError for a field that is no float and for any other field count.  *)
(***************************************************************************)
ParseReading(message) ==
  LET fields == Split(message) IN
    IF Len(fields) = 6 /\ \A i \in 1..6 : ParseFloat(fields[i]).ok
      THEN [ok |-> TRUE, vals |-> [i \in 1..6 |-> ParseFloat(fields[i])]]
      ELSE [ok |-> FALSE, vals |-> <<>>]

\* The literal 0.50 of the threshold test.
Threshold == ParseFloat(S(<<"0", ".", "5", "0">>))

BLINK_1S == S(<<"B", "L", "I", "N", "K", "_", "1", "S">>)
BLINK_5S == S(<<"B", "L", "I", "N", "K", "_", "5", "S">>)

\* A variant with >= for >.
Decide_GE(gx) ==
  IF gx.kind # "nan" /\ ~FloatGT(Threshold, gx) THEN BLINK_1S ELSE BLINK_5S

\* command = "BLINK_1S" if gx > 0.50 else "BLINK_5S"
Decide(gx) == IF FloatGT(gx, Threshold) THEN BLINK_1S ELSE BLINK_5S

\* command.strip()
StripCommand(command) == Strip(command)

(***************************************************************************)
(* Notification payloads the peripheral sends (bytes).                     *)
(***************************************************************************)
Payloads ==
  { Encode(S(<<"0", ".", "6", ",", "0", ",", "0", ",", "0", ",", "0", ",", "0">>)),
    Encode(S(<<"0", ".", "5", "0", ",", "9", ",", "9", ",", "9", ",", "9", ",", "9">>)),
    Encode(S(<<"0", ".", "6", ",", "x", ",", "0", ",", "0", ",", "0", ",", "0">>)),
    Encode(S(<<"0", ",", "0", ",", "0", ",", "0", ",", "0">>)),
    Encode(BLINK_1S),
    <<48, 255>> }

\* The texts those payloads decode to, and the conversions of the model's
\* payloads and texts, each evaluated once.
Texts == {Decode(data).str : data \in {d \in Payloads : Decode(d).ok}}

DecodeOf == [data \in Payloads |-> Decode(data)]
EncodeOf == [str \in Texts |-> Encode(str)]

(***************************************************************************)
(* State.                                                                  *)
(***************************************************************************)
Procs == {"N", "W"}   \* notification process (child), writer (parent)

VARIABLES
  queue,       \* the multiprocessing.Queue: items [id, str], oldest first
  pc,          \* pc[p]: where process p stands
  job,         \* job[p]: the item p took from the queue and what it writes
  conn,        \* conn[p]: BleakClient of p: "none", "open", "closed"
  closes,      \* closes[p]: how often p's connection was closed
  link,        \* link[p]: the transport under p's connection is up
  reachable,   \* the peripheral can be found and connected to
  subscribed,  \* start_notify done and stop_notify not yet
  cancel,      \* cancel[p]: "none", "pending" (requested), "raised"
  exit,        \* exit[p]: "running", or how p's main() ends: "returned",
               \*   "not_found", "cancelled", or the call whose exception
               \*   ends it
  wire,        \* the writes that reached the peripheral, in order, each
               \*   with whether a sleep has returned since
  delivered,   \* notifications handed to the callback so far
  lastData,    \* the bytes of the latest of them
  errors       \* logger.error calls of the callback

vars == <<queue, pc, job, conn, closes, link, reachable, subscribed, cancel,
          exit, wire, delivered, lastData, errors>>

\* tries counts the write_gatt_char calls made for the item that returned.
NoJob == [id |-> 0, src |-> <<>>, payload |-> <<>>, kind |-> "none", tries |-> 0]

\* Writes in flight at the transport: write_gatt_char called, not yet returned.
inflight == {p \in Procs : pc[p] = "writing"}

\* The places where a process's event loop is suspended in an await.
Awaiting(p) ==
  pc[p] \in {"scan", "connect", "start_notify", "writing", "sleep",
             "finally_sleep", "stop_notify", "disconnect"}

Init ==
  /\ queue = <<>>
  /\ pc = [p \in Procs |-> IF p = "W" THEN "start" ELSE "idle"]
  /\ job = [p \in Procs |-> NoJob]
  /\ conn = [p \in Procs |-> "none"]
  /\ closes = [p \in Procs |-> 0]
  /\ link = [p \in Procs |-> FALSE]
  /\ reachable = TRUE
  /\ subscribed = FALSE
  /\ cancel = [p \in Procs |-> "none"]
  /\ exit = [p \in Procs |-> "running"]
  /\ wire = <<>>
  /\ delivered = 0
  /\ lastData = <<>>
  /\ errors = 0

(***************************************************************************)
(* Shared steps.                                                           *)
(***************************************************************************)
\* An await of p returns normally only while no cancellation is pending:
\* a cancelled task is resumed with CancelledError instead.
Resumes(p) == cancel[p] # "pending"

\* What the peripheral observes of a write of p that reached it; paused
\* tells whether a 1-second sleep has returned since.
Observed(p) ==
  Append(wire, [by |-> p, id |-> job[p].id, src |-> job[p].src,
                payload |-> job[p].payload, paused |-> FALSE])

\* asyncio.sleep(1) returned: a pause has passed since the latest write.
Pause ==
  IF wire = <<>> THEN wire ELSE [wire EXCEPT ![Len(wire)].paused = TRUE]

\* The write_gatt_char of p returns: the bytes reached the peripheral (ok)
\* or the call raised.  It cannot succeed on a link that is down.
WriteReturns(p, ok) ==
  /\ pc[p] = "writing"
  /\ Resumes(p)
  /\ ok => link[p]
  /\ wire' = IF ok THEN Observed(p) ELSE wire
  /\ job' = [job EXCEPT ![p].tries = @ + 1]

\* async with BleakClient(device): __aenter__ connects.
Connect(p, ok) ==
  /\ pc[p] = "connect"
  /\ Resumes(p)
  /\ ok => reachable
  /\ conn' = [conn EXCEPT ![p] = IF ok THEN "open" ELSE @]
  /\ link' = [link EXCEPT ![p] = ok]

\* async with BleakClient(device): __aexit__ disconnects, once.
Disconnected(p) ==
  /\ pc[p] = "disconnect"
  /\ conn' = [conn EXCEPT ![p] = "closed"]
  /\ closes' = [closes EXCEPT ![p] = @ + 1]
  /\ link' = [link EXCEPT ![p] = FALSE]
  /\ pc' = [pc EXCEPT ![p] = "done"]

\* The largest capacity a run of the model can exceed.  Queue() is built
\* without a maxsize, so the code itself has no capacity.
queue_capacity == MaxNotifs - 1

\* How main() ended once the connection is closed: normally, unless an
\* exception is on its way out.
Ended(p) == [exit EXCEPT ![p] = IF @ = "running" THEN "returned" ELSE @]

\* The exit code of the process of p once it has ended: 0 when main()
\* returned and the script (or the Process target) ran to its end, 1 when an
\* exception left asyncio.run.
ExitCode(p) == IF exit[p] \in {"returned", "not_found"} THEN 0 ELSE 1

(***************************************************************************)
(* devel_notifications.py: the notification callback.                      *)
(***************************************************************************)
\* A bounded variant that drops the newest item when the queue is full.
handler_DropNewest(data) ==
  LET decoded == DecodeOf[data] IN
    /\ delivered' = delivered + 1
    /\ lastData' = data
    /\ IF decoded.ok /\ Len(queue) < queue_capacity
         THEN /\ queue' = Append(queue, [id |-> delivered + 1,
                                         str |-> decoded.str])
              /\ errors' = errors
         ELSE /\ queue' = queue
              /\ errors' = errors + 1

\* handler(characteristic, data): decode and queue.put; an exception is
\* logged and goes no further.  Queue() has no maxsize: put never blocks.
handler(data) ==
  LET decoded == DecodeOf[data] IN
    /\ delivered' = delivered + 1
    /\ lastData' = data
    /\ IF decoded.ok
         THEN /\ queue' = Append(queue, [id |-> delivered + 1,
                                         str |-> decoded.str])
              /\ errors' = errors
         ELSE /\ queue' = queue
              /\ errors' = errors + 1

\* The transport calls the callback in the notification process's event
\* loop: only while that loop is suspended in an await, the subscription
\* stands and the link is up.
Notify ==
  /\ delivered < MaxNotifs
  /\ subscribed /\ link["N"] /\ Awaiting("N")
  /\ \E data \in Payloads : handler(data)
  /\ UNCHANGED <<pc, job, conn, closes, link, reachable, subscribed, cancel,
                 exit, wire>>

(***************************************************************************)
(* devel_notifications.py: main().                                         *)
(***************************************************************************)
\* find_device_by_address / find_device_by_name: a device or None.
NScan ==
  /\ pc["N"] = "scan"
  /\ Resumes("N")
  /\ \E found \in BOOLEAN :
       /\ found => reachable
       /\ pc' = [pc EXCEPT !["N"] = IF found THEN "connect" ELSE "done"]
       /\ exit' = [exit EXCEPT !["N"] = IF found THEN @ ELSE "not_found"]
  /\ UNCHANGED <<queue, job, conn, closes, link, reachable, subscribed, cancel,
                 wire, delivered, lastData, errors>>

NConnect ==
  /\ \E ok \in BOOLEAN :
       /\ Connect("N", ok)
       /\ pc' = [pc EXCEPT !["N"] = IF ok THEN "start_notify" ELSE "done"]
       /\ exit' = [exit EXCEPT !["N"] = IF ok THEN @ ELSE "connect_failed"]
  /\ UNCHANGED <<queue, job, closes, reachable, subscribed, cancel, wire,
                 delivered, lastData, errors>>

\* await client.start_notify(...): outside the try, a failure leaves the
\* async with.
NStartNotify ==
  /\ pc["N"] = "start_notify"
  /\ Resumes("N")
  /\ \E ok \in BOOLEAN :
       /\ ok => link["N"]
       /\ subscribed' = ok
       /\ pc' = [pc EXCEPT !["N"] = IF ok THEN "check" ELSE "disconnect"]
       /\ exit' = [exit EXCEPT !["N"] = IF ok THEN @ ELSE "start_notify_failed"]
  /\ UNCHANGED <<queue, job, conn, closes, link, reachable, cancel, wire,
                 delivered, lastData, errors>>

\* if not queue.empty():
NCheck ==
  /\ pc["N"] = "check"
  /\ pc' = [pc EXCEPT !["N"] = IF queue # <<>> THEN "get" ELSE "sleep"]
  /\ UNCHANGED <<queue, job, conn, closes, link, reachable, subscribed, cancel,
                 exit, wire, delivered, lastData, errors>>

\* command = queue.get() (blocking), then write_gatt_char(led_characteristic,
\* command.encode("utf-8")) is called.
NGet ==
  /\ pc["N"] = "get"
  /\ queue # <<>>
  /\ queue' = Tail(queue)
  /\ job' = [job EXCEPT !["N"] =
               [id |-> Head(queue).id, src |-> Head(queue).str,
                payload |-> EncodeOf[Head(queue).str], kind |-> "raw",
                tries |-> 0]]
  /\ pc' = [pc EXCEPT !["N"] = "writing"]
  /\ UNCHANGED <<conn, closes, link, reachable, subscribed, cancel, exit, wire,
                 delivered, lastData, errors>>

\* The write returns; an exception is not caught by the loop (only
\* CancelledError is) and runs the finally clause on its way out.
NWriteDone ==
  /\ \E ok \in BOOLEAN :
       /\ WriteReturns("N", ok)
       /\ pc' = [pc EXCEPT !["N"] = IF ok THEN "sleep" ELSE "stop_notify"]
       /\ exit' = [exit EXCEPT !["N"] = IF ok THEN @ ELSE "write_failed"]
  /\ UNCHANGED <<queue, conn, closes, link, reachable, subscribed, cancel,
                 delivered, lastData, errors>>

\* await asyncio.sleep(1.0)
NSleep ==
  /\ pc["N"] = "sleep"
  /\ Resumes("N")
  /\ pc' = [pc EXCEPT !["N"] = "check"]
  /\ job' = [job EXCEPT !["N"] = NoJob]
  /\ wire' = Pause
  /\ UNCHANGED <<queue, conn, closes, link, reachable, subscribed, cancel,
                 exit, delivered, lastData, errors>>

\* CancelledError is raised at the await the task is suspended in.  Inside
\* the try it is caught and main() goes on to the finally clause; a write in
\* flight may or may not have reached the peripheral.
NCancelled ==
  /\ cancel["N"] = "pending"
  /\ cancel' = [cancel EXCEPT !["N"] = "raised"]
  /\ \/ /\ pc["N"] \in {"scan", "connect"}
        /\ pc' = [pc EXCEPT !["N"] = "done"]
        /\ exit' = [exit EXCEPT !["N"] = "cancelled"]
        /\ wire' = wire
     \/ /\ pc["N"] \in {"start_notify", "stop_notify"}
        /\ pc' = [pc EXCEPT !["N"] = "disconnect"]
        /\ exit' = [exit EXCEPT !["N"] = "cancelled"]
        /\ wire' = wire
     \/ /\ pc["N"] = "sleep"
        /\ pc' = [pc EXCEPT !["N"] = "stop_notify"]
        /\ UNCHANGED <<exit, wire>>
     \/ /\ pc["N"] = "writing"
        /\ pc' = [pc EXCEPT !["N"] = "stop_notify"]
        /\ exit' = exit
        /\ \E sent \in BOOLEAN :
             /\ sent => link["N"]
             /\ wire' = IF sent THEN Observed("N") ELSE wire
  /\ UNCHANGED <<queue, job, conn, closes, link, reachable, subscribed,
                 delivered, lastData, errors>>

\* finally: await client.stop_notify(characteristic); it raises on a link
\* that is down.
NStopNotify ==
  /\ pc["N"] = "stop_notify"
  /\ Resumes("N")
  /\ subscribed' = FALSE
  /\ pc' = [pc EXCEPT !["N"] = "disconnect"]
  /\ exit' = [exit EXCEPT !["N"] =
                IF link["N"] \/ @ # "running" THEN @ ELSE "stop_notify_failed"]
  /\ UNCHANGED <<queue, job, conn, closes, link, reachable, cancel, wire,
                 delivered, lastData, errors>>

NDisconnect ==
  /\ Disconnected("N")
  /\ exit' = Ended("N")
  /\ subscribed' = FALSE
  /\ UNCHANGED <<queue, job, reachable, cancel, wire, delivered, lastData, errors>>

(***************************************************************************)
(* enable_response.py: the parent.                                         *)
(***************************************************************************)
\* notification_process.start(), then asyncio.run(main(...)).
Start ==
  /\ pc["W"] = "start"
  /\ pc' = [p \in Procs |-> "scan"]
  /\ UNCHANGED <<queue, job, conn, closes, link, reachable, subscribed, cancel,
                 exit, wire, delivered, lastData, errors>>

\* device = await BleakScanner.find_device_by_name(device_name); main()
\* returns when there is none and the parent goes on to join().
WScan ==
  /\ pc["W"] = "scan"
  /\ Resumes("W")
  /\ \E found \in BOOLEAN :
       /\ found => reachable
       /\ pc' = [pc EXCEPT !["W"] = IF found THEN "connect" ELSE "join"]
       /\ exit' = [exit EXCEPT !["W"] = IF found THEN @ ELSE "not_found"]
  /\ UNCHANGED <<queue, job, conn, closes, link, reachable, subscribed, cancel,
                 wire, delivered, lastData, errors>>

WConnect ==
  /\ \E ok \in BOOLEAN :
       /\ Connect("W", ok)
       /\ pc' = [pc EXCEPT !["W"] = IF ok THEN "get" ELSE "done"]
       /\ exit' = [exit EXCEPT !["W"] = IF ok THEN @ ELSE "connect_failed"]
  /\ UNCHANGED <<queue, job, closes, reachable, subscribed, cancel, wire,
                 delivered, lastData, errors>>

\* What one iteration of process_queue_and_write makes of a message: a
\* command is passed through, anything else is parsed as six floats and
\* answered by the threshold command; ValueError when it does not parse.
RouteOf(message) ==
  IF Contains(message, BLINK)
    THEN [payload |-> Encode(message), kind |-> "command"]
  ELSE LET r == ParseReading(message) IN
    IF r.ok
      THEN [payload |-> Encode(StripCommand(Decide(r.vals[1]))),
            kind |-> "reading"]
      ELSE [payload |-> <<>>, kind |-> "ValueError"]

RouteOn == [message \in Texts |-> RouteOf(message)]

Route(item) ==
  [id |-> item.id, src |-> item.str, payload |-> RouteOn[item.str].payload,
   kind |-> RouteOn[item.str].kind, tries |-> 0]

\* message = queue.get() (blocking), routing, and the call of
\* write_gatt_char; a ValueError goes to the finally clause.
WGet ==
  /\ pc["W"] = "get"
  /\ queue # <<>>
  /\ queue' = Tail(queue)
  /\ job' = [job EXCEPT !["W"] = Route(Head(queue))]
  /\ pc' = [pc EXCEPT !["W"] =
              IF Route(Head(queue)).kind = "ValueError" THEN "sleep" ELSE "writing"]
  /\ UNCHANGED <<conn, closes, link, reachable, subscribed, cancel, exit, wire,
                 delivered, lastData, errors>>

\* A variant that writes the same command again when the write raised.
WAfterWrite_Retry(ok) == IF ok THEN "sleep" ELSE "writing"

\* After the write returned or raised: "except Exception" contains the
\* failure, and either way the finally clause sleeps.
WAfterWrite(ok) == "sleep"

WWriteDone ==
  /\ \E ok \in BOOLEAN :
       /\ WriteReturns("W", ok)
       /\ pc' = [pc EXCEPT !["W"] = WAfterWrite(ok)]
  /\ UNCHANGED <<queue, conn, closes, link, reachable, subscribed, cancel,
                 exit, delivered, lastData, errors>>

\* finally: await asyncio.sleep(1), then the next iteration.
WSleep ==
  /\ pc["W"] = "sleep"
  /\ Resumes("W")
  /\ pc' = [pc EXCEPT !["W"] = "get"]
  /\ job' = [job EXCEPT !["W"] = NoJob]
  /\ wire' = Pause
  /\ UNCHANGED <<queue, conn, closes, link, reachable, subscribed, cancel,
                 exit, delivered, lastData, errors>>

\* CancelledError is no Exception: it passes the except clauses.  Raised in
\* the write it still runs the finally clause's sleep; raised in that sleep
\* it leaves at once.
WCancelled ==
  /\ cancel["W"] = "pending"
  /\ cancel' = [cancel EXCEPT !["W"] = "raised"]
  /\ exit' = [exit EXCEPT !["W"] = "cancelled"]
  /\ \/ /\ pc["W"] \in {"scan", "connect"}
        /\ pc' = [pc EXCEPT !["W"] = "done"]
        /\ wire' = wire
     \/ /\ pc["W"] = "sleep"
        /\ pc' = [pc EXCEPT !["W"] = "disconnect"]
        /\ wire' = wire
     \/ /\ pc["W"] = "writing"
        /\ pc' = [pc EXCEPT !["W"] = "finally_sleep"]
        /\ \E sent \in BOOLEAN :
             /\ sent => link["W"]
             /\ wire' = IF sent THEN Observed("W") ELSE wire
  /\ UNCHANGED <<queue, job, conn, closes, link, reachable, subscribed,
                 delivered, lastData, errors>>

WFinallySleep ==
  /\ pc["W"] = "finally_sleep"
  /\ pc' = [pc EXCEPT !["W"] = "disconnect"]
  /\ wire' = Pause
  /\ UNCHANGED <<queue, job, conn, closes, link, reachable, subscribed, cancel,
                 exit, delivered, lastData, errors>>

\* The async with of main() is left by an exception only: asyncio.run
\* raises and the script ends before its last line.
WDisconnect ==
  /\ Disconnected("W")
  /\ exit' = Ended("W")
  /\ UNCHANGED <<queue, job, reachable, subscribed, cancel, wire, delivered,
                 lastData, errors>>

\* notification_process.join()
WJoin ==
  /\ pc["W"] = "join"
  /\ pc["N"] = "done"
  /\ pc' = [pc EXCEPT !["W"] = "done"]
  /\ UNCHANGED <<queue, job, conn, closes, link, reachable, subscribed, cancel,
                 exit, wire, delivered, lastData, errors>>

(***************************************************************************)
(* The environment: the transport and the user.                            *)
(***************************************************************************)
\* The transport drops.  Both clients run on one host and reach the one
\* peripheral over the same radio link, so every connection that is up goes
\* down; a BleakClient does not come back up by itself.
LinkLoss ==
  /\ \E p \in Procs : conn[p] = "open" /\ link[p]
  /\ link' = [p \in Procs |-> FALSE]
  /\ reachable' = FALSE
  /\ UNCHANGED <<queue, pc, job, conn, closes, subscribed, cancel, exit, wire,
                 delivered, lastData, errors>>

\* The peripheral can be reached again.
Reachable ==
  /\ ~reachable
  /\ reachable' = TRUE
  /\ UNCHANGED <<queue, pc, job, conn, closes, link, subscribed, cancel, exit,
                 wire, delivered, lastData, errors>>

\* The shutdown signal: the main task of every process still running is
\* cancelled, once.
Shutdown ==
  /\ pc["W"] # "start"
  /\ \A p \in Procs : cancel[p] = "none"
  /\ \E p \in Procs : pc[p] # "done"
  /\ cancel' = [p \in Procs |-> IF pc[p] # "done" THEN "pending" ELSE "none"]
  /\ UNCHANGED <<queue, pc, job, conn, closes, link, reachable, subscribed,
                 exit, wire, delivered, lastData, errors>>

Next ==
  \/ Start \/ WScan \/ WConnect \/ WGet \/ WWriteDone \/ WSleep \/ WCancelled
  \/ WFinallySleep \/ WDisconnect \/ WJoin
  \/ NScan \/ NConnect \/ NStartNotify \/ NCheck \/ NGet \/ NWriteDone
  \/ NSleep \/ NCancelled \/ NStopNotify \/ NDisconnect
  \/ Notify \/ LinkLoss \/ Reachable \/ Shutdown

Spec == Init /\ [][Next]_vars

\* Each process is scheduled and each await returns: every step of either
\* program that stays possible is eventually taken.  The peripheral keeps
\* notifying while it is subscribed to.  Link loss, reachability and the
\* shutdown signal are up to the environment.
WriterStep ==
  \/ Start \/ WScan \/ WConnect \/ WGet \/ WWriteDone \/ WSleep \/ WCancelled
  \/ WFinallySleep \/ WDisconnect \/ WJoin

NotificationStep ==
  \/ NScan \/ NConnect \/ NStartNotify \/ NCheck \/ NGet \/ NWriteDone
  \/ NSleep \/ NCancelled \/ NStopNotify \/ NDisconnect

FairSpec ==
  /\ Spec
  /\ WF_vars(WriterStep)
  /\ WF_vars(NotificationStep)
  /\ WF_vars(Notify)

(***************************************************************************)
(* Properties.                                                             *)
(***************************************************************************)
\* The processes whose loop has taken an item from the queue.
Consumers ==
  {p \in Procs : job[p].kind # "none"} \cup {wire[i].by : i \in 1..Len(wire)}

\* Text the writer's loop takes for sensor data and parses.
WellFormed(str) == ParseReading(str).ok

\* C1: FIFO dispatch: of two items on the queue, the one enqueued first is
\* written to the command characteristic first; ids are given in enqueue
\* order, so the ids of the writes the peripheral observes only grow.
C1_FifoDispatch ==
  \A i, j \in 1..Len(wire) : i < j => wire[i].id < wire[j].id

\* C2: single producer, single consumer: only one loop ever takes items
\* from the queue the notification callback fills.
C2_SingleConsumer == Cardinality(Consumers) <= 1

\* C3: serialized writes: at most one write to the command characteristic
\* is in flight at any time.
C3_SerializedWrites == Cardinality(inflight) <= 1

\* C4: command-only writes: every payload written to the command
\* characteristic carries the command keyword; raw sensor text is never
\* written.
C4_CommandOnlyWrites ==
  \A i \in 1..Len(wire) :
    /\ Decode(wire[i].payload).ok
    /\ Contains(Decode(wire[i].payload).str, BLINK)

\* C6: malformed payloads are contained: no write is made for a dequeued
\* message that is neither a command nor six numeric fields, nothing is
\* written for an undecodable notification, and handling it ends no loop.
C6_MalformedContained ==
  /\ \A i \in 1..Len(wire) :
       Contains(wire[i].src, BLINK) \/ WellFormed(wire[i].src)
  /\ \A p \in Procs :
       (job[p].kind # "none" /\ ~Contains(job[p].src, BLINK)
          /\ ~WellFormed(job[p].src))
         => pc[p] \in {"sleep", "get"} /\ job[p].tries = 0

\* C8: steady-state errors are not fatal: no process ends because a write
\* to the command characteristic failed.
C8_WriteFailureContained == \A p \in Procs : exit[p] # "write_failed"

AboveHalf(gx) ==
  \/ gx.kind = "inf" /\ ~gx.neg
  \/ /\ gx.kind = "fin" /\ ~gx.neg
     /\ 2 * gx.num * Pow10(gx.exp) > Pow10(0 - gx.exp)

\* The command the threshold policy asks for, as bytes on the wire.
PolicyBytes(src) ==
  IF AboveHalf(ParseFloat(Split(src)[1]))
    THEN <<66, 76, 73, 78, 75, 95, 49, 83>>
    ELSE <<66, 76, 73, 78, 75, 95, 53, 83>>

\* C7: threshold policy: for every parsed six-field reading the command is
\* BLINK_1S exactly when gx > 0.50 and BLINK_5S otherwise (gx = 0.50
\* included); it is a function of the first field alone.
C7_ThresholdPolicy ==
  /\ job["W"].kind = "reading" => job["W"].payload = PolicyBytes(job["W"].src)
  /\ \A i \in 1..Len(wire) :
       (wire[i].by = "W" /\ ~Contains(wire[i].src, BLINK))
         => wire[i].payload = PolicyBytes(wire[i].src)

\* C7 witness: after a reading with gx above the threshold was answered by
\* BLINK_1S, a reading with gx = 0.50 and every other field above 0.50 is
\* answered by BLINK_5S.
C7_Witness ==
  /\ job["W"].kind = "reading"
  /\ Split(job["W"].src) = <<S(<<"0", ".", "5", "0">>), <<57>>, <<57>>, <<57>>,
                             <<57>>, <<57>>>>
  /\ job["W"].payload = Encode(BLINK_5S)
  /\ \E i \in 1..Len(wire) :
       wire[i].by = "W" /\ wire[i].payload = Encode(BLINK_1S)
         /\ ~Contains(wire[i].src, BLINK)

\* A loop of process p is running.
InLoop(p) ==
  IF p = "N" THEN pc[p] \in {"check", "get", "writing", "sleep"}
             ELSE pc[p] \in {"get", "writing", "sleep"}

\* C9: shutdown: once the shutdown signal is issued every running loop
\* eventually exits, also one blocked in queue.get(), and each connection
\* is closed exactly once.
C9_Shutdown ==
  \A p \in Procs :
    (cancel[p] = "pending" /\ InLoop(p)) ~> (pc[p] = "done" /\ closes[p] = 1)

C11_ExitStatus ==
  \A p \in Procs :
    pc[p] = "done" =>
      /\ exit[p] \in {"not_found", "connect_failed", "start_notify_failed"}
           => ExitCode(p) # 0
      /\ ExitCode(p) = 0 => (exit[p] = "returned" /\ cancel[p] = "raised")

\* C12: keyword pass-through: a dequeued message that contains "BLINK" is
\* passed to the write unchanged, at most once, and is not parsed; a
\* dequeued message that does not contain it is parsed as the six fields
\* gx, gy, gz, ax, ay, az (a reading, or a ValueError when it is not one).
C12_KeywordPassThrough ==
  /\ \A p \in Procs :
       job[p].kind # "none" =>
         IF Contains(job[p].src, BLINK)
           THEN /\ job[p].kind \notin {"reading", "ValueError"}
                /\ job[p].payload = Encode(job[p].src)
                /\ job[p].tries <= 1
           ELSE job[p].kind \in {"reading", "ValueError"}
  /\ \A i \in 1..Len(wire) :
       Contains(wire[i].src, BLINK) =>
         /\ wire[i].payload = Encode(wire[i].src)
         /\ \A j \in 1..Len(wire) : wire[j].id = wire[i].id => j = i

\* C13: device-not-found is fatal to the whole program: once the scan of
\* either process found no device, that process never scans again and the
\* program eventually terminates, the parent having returned from joining
\* the child, whatever the other process's scan found.
C13_NotFoundIsFatal ==
  /\ [](\A p \in Procs : exit[p] = "not_found" => pc[p] # "scan")
  /\ \A p \in Procs :
       (exit[p] = "not_found") ~> (pc["W"] = "done" /\ pc["N"] = "done")

\* C14: write spacing: between any two consecutive writes that reach the
\* peripheral, from whichever loop, a 1-second sleep has returned; an
\* iteration calls the write at most once, and a loop is back at its
\* dequeue only after the sleep that ends the iteration.
C14_WriteSpacing ==
  /\ \A i \in 1..(Len(wire) - 1) : wire[i].paused
  /\ \A p \in Procs : job[p].tries <= 1
  /\ \A p \in Procs : pc[p] \in {"check", "get"} => job[p] = NoJob

\* C15: check-then-get never blocks: whenever the notification process is
\* at its queue.get(), having seen the queue not empty, an item is in the
\* queue; so the two processes are never both blocked in queue.get() on an
\* empty queue, where the callback, the only producer, cannot run.
C15_CheckThenGetNeverBlocks ==
  /\ pc["N"] = "get" => queue # <<>>
  /\ ~(pc["N"] = "get" /\ pc["W"] = "get" /\ queue = <<>> /\ ~ENABLED Notify)

\* C16: one reading, one decided command: a well-formed six-field reading
\* received by the callback leads to no more than one write, and the write
\* it leads to is the threshold command decided from its gx, whichever
\* loop made it.
C16_OneReadingOneCommand ==
  \A i \in 1..Len(wire) :
    (WellFormed(wire[i].src) /\ ~Contains(wire[i].src, BLINK)) =>
      /\ wire[i].payload \in {Encode(BLINK_1S), Encode(BLINK_5S)}
      /\ wire[i].payload = PolicyBytes(wire[i].src)
      /\ \A j \in 1..Len(wire) : wire[j].id = wire[i].id => j = i
====
